---------------------------- MODULE Spec2Model ----------------------------
(***************************************************************************)
(* Model of the content mirror and replica-consistency engine of           *)
(* src/luxbin_web_mirror.py (class QuantumWebMirror): mirror_page,         *)
(* sync_mirrors and mirror_website with the helpers they call.             *)
(*                                                                         *)
(* Scores are correlations in hundredths (0.7 is 70).  URLs are numbered   *)
(* pages of one site (1..NumUrls) plus one page of a foreign site (Ext).   *)
(* The collaborators (HTTP fetch, encoder, DHT, entangler, name system)    *)
(* are inputs: each call of mirror_page is driven by a scenario that says  *)
(* how far the call gets and what the collaborators answer.                *)
(***************************************************************************)
EXTENDS Integers, Sequences, FiniteSets, TLC

VARIABLES
    quantum_backends,   \* self.quantum_backends: the configured node list
    mirrors,            \* self.mirrors: insertion-ordered dict, as the sequence of its values
    crawl_queue,        \* self.crawl_queue
    visited_urls,       \* self.visited_urls
    dht,                \* entries put into the DHT by store_content
    registry,           \* names registered in the name system
    clock,              \* time.time(): one tick per operation of the engine
    fetches,            \* number of session.get calls issued so far
    lastScore,          \* url -> last correlation measured for the stored record
    last,               \* the last operation and its outcome
    world,              \* the web being crawled: links and failing pages
    call,               \* the running mirror_website call: its arguments, locals, position
    verifier,           \* url -> the correlation the entangler returns for the record when asked now
    tasks,              \* the coroutines running on the event loop: arguments, locals, position
    superposition_chain, \* LUXBINSuperpositionBlockchain.superposition_chain: the list of blocks
    lightworkers,       \* LightworkerIntegration.lightworkers: dict in insertion order, as the sequence of its values
    cell_ownership      \* LightworkerIntegration.cell_ownership: nft_token_id -> agent_id

vars == << quantum_backends, mirrors, crawl_queue, visited_urls, dht, registry,
           clock, fetches, lastScore, last, world, call, verifier, tasks,
           superposition_chain, lightworkers, cell_ownership >>

----------------------------------------------------------------------------
(* Bounds *)

NumUrls == 5
NumDirectUrls == 2
NumContents == 2
MaxBackends == 5
MaxClock == 2
MaxPages == 5

(* Program constants *)

mirror_replication == 4
Threshold == 70

URLs == 1..NumUrls
DirectUrls == 1..NumDirectUrls
\* the root page of the site, and a page of another site
Home == 1
Ext == 0
Contents == 1..NumContents
Scores == {Threshold - 1, Threshold, Threshold + 1}

None == [none |-> TRUE]

Min(a, b) == IF a < b THEN a ELSE b

----------------------------------------------------------------------------
(* Helpers of mirror_page *)

\* urlparse(url).netloc: the pages 1..NumUrls share one site, Ext is elsewhere
netloc(url) == IF url = Ext THEN "elsewhere" ELSE "site"

\* hashlib.sha256(content).hexdigest()[:16]
content_hash(content) == [sha256 |-> content, hexchars |-> 16]

\* mutant of mirror_nodes_slice: the last mirror_replication backends
mirror_nodes_tail(backends) ==
    SubSeq(backends, Len(backends) - Min(mirror_replication, Len(backends)) + 1, Len(backends))

\* self.quantum_backends[:self.mirror_replication]
mirror_nodes_slice(backends) == SubSeq(backends, 1, Min(mirror_replication, Len(backends)))

\* dht.store_content(content, metadata): returns the address of the entry
store_content(url, content, now) == [source |-> url, hash |-> content_hash(content), ts |-> now]

\* store_with_quantum_mirrors: the DHT after the put
store_with_quantum_mirrors(d, backends, content, url, now) ==
    d \cup { [ luxbin_address |-> store_content(url, content, now),
               content        |-> content,
               source_url     |-> url,
               mirror_nodes   |-> mirror_nodes_slice(backends),
               mirror_timestamp |-> now ] }

\* entangle_mirrors: the correlation is measured, the result is correlation > 0.7
entangle_mirrors(correlation) == correlation > Threshold

\* register_url_mapping: name_system.register_name(name, address, owner);
\* a refused registration returns without raising and registers nothing
register_url_mapping(reg, url, luxbin_address, answer) ==
    IF answer = "ok"
    THEN reg \cup { [ name |-> << netloc(url), url >>,
                      luxbin_address |-> luxbin_address,
                      owner |-> "web_mirror_gateway" ] }
    ELSE reg

\* MirrorRecord(...) as built at the end of mirror_page
MirrorRecord(url, luxbin_address, hash, backends, now, verified) ==
    [ http_url              |-> url,
      luxbin_address        |-> luxbin_address,
      content_hash          |-> hash,
      mirror_nodes          |-> mirror_nodes_slice(backends),
      last_updated          |-> now,
      wavelength_encoded    |-> TRUE,
      acoustic_encoded      |-> TRUE,
      entanglement_verified |-> verified ]

\* keys of the dict self.mirrors
Keys(m) == { m[i].http_url : i \in 1..Len(m) }

\* self.mirrors[url] (url must be a key)
Get(m, url) == m[CHOOSE i \in 1..Len(m) : m[i].http_url = url]

\* a dict that is handed every assignment as a new entry (mutant of DictSet)
DictSetAppend(m, rec) == Append(m, rec)

\* a dict whose assignment to an existing key edits the stored record field
\* by field and leaves its address alone (mutant of DictSet)
DictSetMerge(m, rec) ==
    IF rec.http_url \in Keys(m)
    THEN [ i \in 1..Len(m) |-> IF m[i].http_url = rec.http_url
                                THEN [ rec EXCEPT !.luxbin_address = m[i].luxbin_address ]
                                ELSE m[i] ]
    ELSE Append(m, rec)

\* a dict whose assignment to an existing key writes the new content_hash
\* and flag into the stored record (mutant of DictSet)
DictSetEdit(m, rec) ==
    IF rec.http_url \in Keys(m)
    THEN [ i \in 1..Len(m) |-> IF m[i].http_url = rec.http_url
                                THEN [ m[i] EXCEPT !.content_hash = rec.content_hash,
                                         !.entanglement_verified = rec.entanglement_verified ]
                                ELSE m[i] ]
    ELSE Append(m, rec)

\* self.mirrors[url] = mirror_record: an existing key keeps its position
DictSet(m, rec) ==
    IF rec.http_url \in Keys(m)
    THEN [ i \in 1..Len(m) |-> IF m[i].http_url = rec.http_url THEN rec ELSE m[i] ]
    ELSE Append(m, rec)

\* dict update used for lastScore and mirrored_pages
Put(f, k, v) == [ x \in DOMAIN f \cup {k} |-> IF x = k THEN v ELSE f[x] ]

----------------------------------------------------------------------------
(* Scenarios: what the collaborators do during one mirror_page call.       *)
(* fault names the step that fails ("none" when every step succeeds);      *)
(* content is the body the fetch returns, score the measured correlation,  *)
(* reg the answer of the name system.                                      *)

Faults == { "fetch_status", "fetch_error", "encode", "store", "verify", "register" }

Scn(fault, content, score, reg) ==
    [ fault |-> fault, content |-> content, score |-> score, reg |-> reg ]

Scenarios ==
    { Scn(f, 1, Threshold, "ok") : f \in { "fetch_status", "fetch_error", "encode", "store" } }
    \cup { Scn("verify", c, Threshold, "ok") : c \in Contents }
    \cup { Scn("register", c, Threshold, "raise") : c \in Contents }
    \cup { Scn("none", c, s, r) : c \in Contents, s \in Scores, r \in { "ok", "refused" } }

\* the engine state mirror_page reads and writes
Engine == [ mirrors |-> mirrors, dht |-> dht, registry |-> registry,
            lastScore |-> lastScore, fetches |-> fetches,
            backends |-> quantum_backends, now |-> clock ]

Failed(st) == [ mirrors |-> st.mirrors, dht |-> st.dht, registry |-> st.registry,
                lastScore |-> st.lastScore, fetches |-> st.fetches + 1, result |-> None ]

\* mutant of mirror_page: the content is put into the DHT before the fetch
\* status and the encoder are checked
mirror_page_store_first(st, url, sc) ==
    LET hash    == content_hash(sc.content)
        address == store_content(url, sc.content, st.now)
        stored  == store_with_quantum_mirrors(st.dht, st.backends, sc.content, url, st.now)
        verified == entangle_mirrors(sc.score)
        rec     == MirrorRecord(url, address, hash, st.backends, st.now, verified)
    IN  IF sc.fault = "store"
        THEN Failed(st)
        ELSE IF sc.fault \in { "fetch_status", "fetch_error", "encode", "verify" }
        THEN [ Failed(st) EXCEPT !.dht = stored ]
        ELSE IF sc.fault = "register"
        THEN [ Failed(st) EXCEPT !.dht = stored ]
        ELSE [ mirrors   |-> DictSet(st.mirrors, rec),
               dht       |-> stored,
               registry  |-> register_url_mapping(st.registry, url, address, sc.reg),
               lastScore |-> Put(st.lastScore, url, sc.score),
               fetches   |-> st.fetches + 1,
               result    |-> rec ]

\* mutant of mirror_page: a call that fails after the fetch drops the record
\* an earlier call stored for the url
mirror_page_drop_on_failure(st, url, sc) ==
    LET hash    == content_hash(sc.content)
        address == store_content(url, sc.content, st.now)
        stored  == store_with_quantum_mirrors(st.dht, st.backends, sc.content, url, st.now)
        verified == entangle_mirrors(sc.score)
        rec     == MirrorRecord(url, address, hash, st.backends, st.now, verified)
        Other(r) == r.http_url # url
    IN  IF sc.fault \in { "fetch_status", "fetch_error" }
        THEN Failed(st)
        ELSE IF sc.fault \in { "encode", "store" }
        THEN [ Failed(st) EXCEPT !.mirrors = SelectSeq(st.mirrors, Other) ]
        ELSE IF sc.fault \in { "verify", "register" }
        THEN [ Failed(st) EXCEPT !.dht = stored, !.mirrors = SelectSeq(st.mirrors, Other) ]
        ELSE [ mirrors   |-> DictSet(st.mirrors, rec),
               dht       |-> stored,
               registry  |-> register_url_mapping(st.registry, url, address, sc.reg),
               lastScore |-> Put(st.lastScore, url, sc.score),
               fetches   |-> st.fetches + 1,
               result    |-> rec ]

\* mutant of mirror_page: the record is written into self.mirrors before the
\* content is put into the DHT, so a failing put leaves a record behind
mirror_page_record_first(st, url, sc) ==
    LET hash    == content_hash(sc.content)
        address == store_content(url, sc.content, st.now)
        stored  == store_with_quantum_mirrors(st.dht, st.backends, sc.content, url, st.now)
        verified == entangle_mirrors(sc.score)
        rec     == MirrorRecord(url, address, hash, st.backends, st.now, verified)
    IN  IF sc.fault \in { "fetch_status", "fetch_error", "encode" }
        THEN Failed(st)
        ELSE IF sc.fault = "store"
        THEN [ Failed(st) EXCEPT !.mirrors = DictSet(st.mirrors, rec) ]
        ELSE IF sc.fault \in { "verify", "register" }
        THEN [ Failed(st) EXCEPT !.dht = stored, !.mirrors = DictSet(st.mirrors, rec) ]
        ELSE [ mirrors   |-> DictSet(st.mirrors, rec),
               dht       |-> stored,
               registry  |-> register_url_mapping(st.registry, url, address, sc.reg),
               lastScore |-> Put(st.lastScore, url, sc.score),
               fetches   |-> st.fetches + 1,
               result    |-> rec ]

\* mirror_page(url): every exception of steps 1-7 is caught by the one
\* except clause, which returns None; what was done before it stays done
mirror_page(st, url, sc) ==
    LET hash    == content_hash(sc.content)
        address == store_content(url, sc.content, st.now)
        stored  == store_with_quantum_mirrors(st.dht, st.backends, sc.content, url, st.now)
        verified == entangle_mirrors(sc.score)
        rec     == MirrorRecord(url, address, hash, st.backends, st.now, verified)
    IN  IF sc.fault \in { "fetch_status", "fetch_error", "encode", "store" }
        THEN Failed(st)
        ELSE IF sc.fault = "verify"
        THEN [ Failed(st) EXCEPT !.dht = stored ]
        ELSE IF sc.fault = "register"
        THEN [ Failed(st) EXCEPT !.dht = stored ]
        ELSE [ mirrors   |-> DictSet(st.mirrors, rec),
               dht       |-> stored,
               registry  |-> register_url_mapping(st.registry, url, address, sc.reg),
               lastScore |-> Put(st.lastScore, url, sc.score),
               fetches   |-> st.fetches + 1,
               result    |-> rec ]


\* sync_mirrors: every record that is not entanglement_verified is measured
\* again, in dict order; the value entangle_mirrors returns is dropped and
\* no field of the record is assigned.  stop is the position whose
\* measurement raises (0: none does); the exception leaves sync_mirrors.
Reverified(m, stop) ==
    { i \in 1..Len(m) : ~m[i].entanglement_verified /\ (stop = 0 \/ i < stop) }

\* mutant of sync_mirrors: a record measured again is moved to the backends
\* in reverse order
sync_mirrors_move(st, ans, stop) ==
    LET done == { st.mirrors[i].http_url : i \in Reverified(st.mirrors, stop) }
        Moved(nodes) == [ i \in 1..Len(nodes) |-> nodes[Len(nodes) + 1 - i] ]
    IN  [ mirrors   |-> [ i \in 1..Len(st.mirrors) |->
                            IF st.mirrors[i].http_url \in done
                            THEN [ st.mirrors[i] EXCEPT !.mirror_nodes = Moved(@) ]
                            ELSE st.mirrors[i] ],
          lastScore |-> [ u \in DOMAIN st.lastScore |->
                            IF u \in done THEN ans[u] ELSE st.lastScore[u] ],
          reverified |-> done ]

\* mutant of sync_mirrors: a record measured weak again is dropped
sync_mirrors_evict(st, ans, stop) ==
    LET done == { st.mirrors[i].http_url : i \in Reverified(st.mirrors, stop) }
        Kept(r) == r.http_url \notin done \/ ans[r.http_url] > Threshold
    IN  [ mirrors   |-> SelectSeq(st.mirrors, Kept),
          lastScore |-> [ u \in DOMAIN st.lastScore |->
                            IF u \in done THEN ans[u] ELSE st.lastScore[u] ],
          reverified |-> done ]

sync_mirrors(st, ans, stop) ==
    LET done == { st.mirrors[i].http_url : i \in Reverified(st.mirrors, stop) }
    IN  [ mirrors   |-> st.mirrors,
          lastScore |-> [ u \in DOMAIN st.lastScore |->
                            IF u \in done THEN ans[u] ELSE st.lastScore[u] ],
          reverified |-> done ]

\* extract_links(base_url, mirror_record): the anchors of the page, kept when
\* on the site of base_url; empty when the DHT returns nothing or raises
Retrievals == { "ok", "empty", "raise" }

extract_links(w, base_url, retr) ==
    IF retr # "ok"
    THEN {}
    ELSE { l \in w.links[base_url] : netloc(l) = netloc(base_url) }

----------------------------------------------------------------------------
(* The web a crawl runs on: links[u] are the absolute targets of the       *)
(* anchors of page u, failing the pages whose mirror_page call fails and   *)
(* kind the step at which it fails for them.                               *)


Targets == URLs \cup {Ext}

Chain == [ u \in URLs |-> IF u < NumUrls THEN {u + 1} ELSE {} ]
Ring  == [ u \in URLs |-> {(u % NumUrls) + 1, u} ]
Star  == [ u \in URLs |-> IF u = Home THEN Targets \ {Home} ELSE {Home, Ext} ]
Tree  == [ u \in URLs |-> {2 * u, 2 * u + 1} \cap URLs ]

Pair  == [ u \in URLs |-> IF u <= 2 THEN {1, 2, Ext} ELSE {} ]
Lone  == [ u \in URLs |-> {} ]

Graphs == { Chain, Ring, Star, Tree, Pair, Lone }

World(g, f, k) == [ links |-> g, failing |-> f, kind |-> IF f = {} THEN "none" ELSE k ]

\* the ways a page fails in a crawl: at the fetch, at the entangler, at the name system
CrawlFaults == { "fetch_status", "verify", "register" }

Worlds == { World(g, f, k) : g \in Graphs, f \in SUBSET URLs, k \in CrawlFaults }

NoWorld == World(Lone, {}, "none")

\* the body page u serves
Body(u) == (u % NumContents) + 1

\* the correlation the entangler measures for page u
Correlation(u) == Threshold - 1 + (u % 3)

FetchFaults == { "fetch_status", "fetch_error" }

\* the scenario of the mirror_page call the crawl makes for page u
CrawlScenario(w, u) ==
    IF u \in w.failing
    THEN Scn(w.kind, Body(u), Correlation(u), IF w.kind = "register" THEN "raise" ELSE "ok")
    ELSE Scn("none", Body(u), Correlation(u), "ok")

----------------------------------------------------------------------------
(* Initial states *)

Idle == [ pc |-> "idle", url |-> Home, recursive |-> FALSE, max_pages |-> 0,
          mirrored_pages |-> << >>, failed |-> {}, lost |-> FALSE ]

NoOp == [ op |-> "none", url |-> Home, fault |-> "none", reg |-> "ok",
          result |-> None, reverified |-> {}, raised |-> FALSE, time |-> 0 ]

InitEngine ==
    /\ mirrors = << >>
    /\ crawl_queue = {}
    /\ visited_urls = {}
    /\ dht = {}
    /\ registry = {}
    /\ clock = 0
    /\ fetches = 0
    /\ lastScore = << >>
    /\ last = NoOp
    /\ call = Idle
    /\ verifier = << >>
    /\ tasks = << >>
    /\ superposition_chain = << >>
    /\ lightworkers = << >>
    /\ cell_ownership = << >>

\* the backend lists __init__ may be handed: it accepts any list
Backends(n) == [ i \in 1..n |-> i ]

\* __init__ with the four backends every caller in the repository passes
Init ==
    /\ quantum_backends = Backends(mirror_replication)
    /\ world = NoWorld
    /\ InitEngine

\* __init__ with any list of backends
InitConfig ==
    /\ quantum_backends \in { Backends(n) : n \in 0..MaxBackends }
    /\ world = NoWorld
    /\ InitEngine

\* __init__ as in Init, and the web the crawl will run on
InitCrawl ==
    /\ quantum_backends = Backends(mirror_replication)
    /\ world \in Worlds
    /\ InitEngine

----------------------------------------------------------------------------
(* Actions *)

\* await mirror_page(url), called directly
MirrorPage ==
    /\ clock < MaxClock
    /\ \E url \in DirectUrls, sc \in Scenarios :
         LET r == mirror_page(Engine, url, sc)
         IN  /\ mirrors' = r.mirrors
             /\ dht' = r.dht
             /\ registry' = r.registry
             /\ lastScore' = r.lastScore
             /\ fetches' = r.fetches
             /\ last' = [ op |-> "mirror_page", url |-> url, fault |-> sc.fault,
                          reg |-> sc.reg, result |-> r.result, reverified |-> {},
                          raised |-> FALSE, time |-> clock ]
    /\ clock' = clock + 1
    /\ UNCHANGED << verifier, tasks, quantum_backends, superposition_chain, lightworkers,
                    cell_ownership, crawl_queue, visited_urls, world, call >>

\* await sync_mirrors()
Degraded(m) == { m[i].http_url : i \in { j \in 1..Len(m) : ~m[j].entanglement_verified } }

SyncMirrors ==
    /\ clock < MaxClock
    /\ \E ans \in [ Degraded(mirrors) -> Scores ],
          stop \in {0} \cup { i \in 1..Len(mirrors) : ~mirrors[i].entanglement_verified } :
         LET r == sync_mirrors(Engine, ans, stop)
         IN  /\ mirrors' = r.mirrors
             /\ lastScore' = r.lastScore
             /\ last' = [ op |-> "sync_mirrors", url |-> Home, fault |-> "none",
                          reg |-> "ok", result |-> None, reverified |-> r.reverified,
                          raised |-> (stop # 0), time |-> clock ]
    /\ clock' = clock + 1
    /\ UNCHANGED << verifier, tasks, quantum_backends, superposition_chain, lightworkers,
                    cell_ownership, crawl_queue, visited_urls, dht, registry,
                    fetches, world, call >>

Next == MirrorPage \/ SyncMirrors

Spec == Init /\ [][Next]_vars

SpecConfig == InitConfig /\ [][Next]_vars

----------------------------------------------------------------------------
(* mirror_website(url, recursive, max_pages) *)

Size(f) == Cardinality(DOMAIN f)

\* lines 114-117: the crawl is initialised
MirrorWebsiteStart ==
    /\ call.pc = "idle"
    /\ \E recursive \in BOOLEAN, max_pages \in 0..MaxPages :
         call' = [ pc |-> "loop", url |-> Home, recursive |-> recursive,
                   max_pages |-> max_pages, mirrored_pages |-> << >>, failed |-> {},
                   lost |-> FALSE ]
    /\ crawl_queue' = { call'.url }
    /\ visited_urls' = {}
    /\ UNCHANGED << verifier, tasks, quantum_backends, superposition_chain, lightworkers,
                    cell_ownership, mirrors, dht, registry, clock, fetches,
                    lastScore, last, world >>

\* mutant of Crawling: the bound is compared inclusively
CrawlingInclusive(queue, pages, max_pages) == queue # {} /\ Size(pages) <= max_pages

\* the loop condition of line 120
Crawling(queue, pages, max_pages) == queue # {} /\ Size(pages) < max_pages

\* mutant of Extracting: the recursive flag is not consulted
ExtractingAlways(recursive, pages, max_pages) == Size(pages) < max_pages

\* whether links are extracted after a page was mirrored (line 136)
Extracting(recursive, pages, max_pages) == recursive /\ Size(pages) < max_pages

\* mutant of collect: the result holds a re-stamped copy of the record
collect_copy(pages, url, result) ==
    IF result # None THEN Put(pages, url, [ result EXCEPT !.last_updated = @ + 1 ]) ELSE pages

\* mutant of collect: the result of mirror_page is stored unchecked
collect_unchecked(pages, url, result) == Put(pages, url, result)

\* lines 131-132: a page is added to mirrored_pages when mirror_page returned a record
collect(pages, url, result) ==
    IF result # None THEN Put(pages, url, result) ELSE pages

\* mutant of visited_add: the page is not remembered
visited_add_nothing(visited, url) == visited

\* line 126: self.visited_urls.add(current_url)
visited_add(visited, url) == visited \cup {url}

\* lines 120-138: one iteration of the loop
MirrorWebsiteLoop ==
    /\ call.pc = "loop"
    /\ Crawling(crawl_queue, call.mirrored_pages, call.max_pages)
    /\ \E current_url \in crawl_queue :
         IF current_url \in visited_urls
         THEN /\ crawl_queue' = crawl_queue \ {current_url}
              /\ UNCHANGED << visited_urls, mirrors, dht, registry, clock, fetches,
                              lastScore, last, call >>
         ELSE \E retr \in Retrievals :
                LET sc == CrawlScenario(world, current_url)
                    r == mirror_page(Engine, current_url, sc)
                    ok == r.result # None
                    pages == collect(call.mirrored_pages, current_url, r.result)
                    extract == ok /\ Extracting(call.recursive, pages, call.max_pages)
                    links == IF extract THEN extract_links(world, current_url, retr) ELSE {}
                IN  /\ visited_urls' = visited_add(visited_urls, current_url)
                    /\ mirrors' = r.mirrors
                    /\ dht' = r.dht
                    /\ registry' = r.registry
                    /\ lastScore' = r.lastScore
                    /\ fetches' = r.fetches
                    /\ clock' = clock + 1
                    /\ last' = [ op |-> "mirror_page", url |-> current_url,
                                 fault |-> sc.fault, reg |-> sc.reg,
                                 result |-> r.result, reverified |-> {},
                                 raised |-> FALSE, time |-> clock ]
                    /\ call' = [ call EXCEPT !.mirrored_pages = pages,
                                   !.failed = IF ok THEN @ ELSE @ \cup {current_url},
                                   !.lost = @ \/ (extract /\ retr # "ok") ]
                    /\ crawl_queue' = (crawl_queue \ {current_url}) \cup links
    /\ UNCHANGED << verifier, tasks, quantum_backends, superposition_chain, lightworkers,
                    cell_ownership, world >>

\* line 141: the loop condition is false, mirrored_pages is returned
MirrorWebsiteReturn ==
    /\ call.pc = "loop"
    /\ ~Crawling(crawl_queue, call.mirrored_pages, call.max_pages)
    /\ call' = [ call EXCEPT !.pc = "done" ]
    /\ UNCHANGED << verifier, tasks, quantum_backends, superposition_chain, lightworkers,
                    cell_ownership, mirrors, crawl_queue, visited_urls, dht,
                    registry, clock, fetches, lastScore, last, world >>

NextCrawl == MirrorWebsiteStart \/ MirrorWebsiteLoop \/ MirrorWebsiteReturn

SpecCrawl == InitCrawl /\ [][NextCrawl]_vars

----------------------------------------------------------------------------
(* Properties of the mirror record store (checked under Spec)              *)

Records == { mirrors[i] : i \in 1..Len(mirrors) }

Mirrored(op) == op.op = "mirror_page" /\ op.result # None

\* C1: at every observable point (after mirror_page, after every sync_mirrors
\* pass) a record is entanglement_verified (CONSISTENT) if and only if the
\* last correlation measured for it is strictly greater than 0.7.
C1_StateFollowsLastScore ==
    \A r \in Records :
        r.entanglement_verified <=> (lastScore[r.http_url] > Threshold)

\* C2: every record returned by mirror_page and every stored record has
\* exactly mirror_replication mirror nodes, whatever backend list is configured.
C2_ReplicaSetLength ==
    /\ \A r \in Records : Len(r.mirror_nodes) = mirror_replication
    /\ Mirrored(last) => Len(last.result.mirror_nodes) = mirror_replication

\* C3: the store holds at most one record per http_url, and after a
\* successful mirror_page(X) the one record of X is the record that call returned.
C3_OneRecordPerSource ==
    /\ \A i, j \in 1..Len(mirrors) : mirrors[i].http_url = mirrors[j].http_url => i = j
    /\ Mirrored(last) =>
          /\ Cardinality({ i \in 1..Len(mirrors) : mirrors[i].http_url = last.url }) = 1
          /\ Get(mirrors, last.url) = last.result

\* witness of C3: a second successful mirror_page of the same url, whose
\* record differs from the first one's, left a single record in the store
C3_Witness ==
    /\ Mirrored(last)
    /\ Len(mirrors) = 1
    /\ \E e \in registry : /\ e.name = << netloc(last.url), last.url >>
                           /\ e.luxbin_address # last.result.luxbin_address
                           /\ e.luxbin_address.hash # last.result.content_hash

\* C7: when the name system fails to register, the mirror still succeeds:
\* the record is stored and returned and the content put earlier stays.
C7_RegistrationFailureKeepsMirror ==
    (last.op = "mirror_page" /\ last.reg # "ok") =>
        /\ last.result # None
        /\ last.url \in Keys(mirrors)
        /\ Get(mirrors, last.url) = last.result
        /\ \E e \in dht : e.source_url = last.url /\ e.mirror_timestamp = last.time

\* C9: a mirror_page call whose fetch fails or whose encoder rejects the
\* body returns None after one fetch and has put nothing into the DHT,
\* registered nothing and stored no record.
EarlyFaults == FetchFaults \cup { "encode" }

C9_EarlyFailureHasNoEffect ==
    [][ (clock' = clock + 1 /\ last'.op = "mirror_page" /\ last'.fault \in EarlyFaults) =>
            /\ last'.result = None
            /\ fetches' = fetches + 1
            /\ dht' = dht
            /\ registry' = registry
            /\ mirrors' = mirrors ]_vars

\* witness of C9: a call failed early for a url that has a stored record
\* and an entry in the DHT from an earlier call
C9_Witness ==
    /\ last.op = "mirror_page"
    /\ last.fault \in EarlyFaults
    /\ last.result = None
    /\ last.url \in Keys(mirrors)
    /\ \E e \in dht : e.source_url = last.url /\ e.mirror_timestamp < last.time

\* C10: a sync_mirrors pass measures every record that is not
\* entanglement_verified again and updates the record in place from the
\* fresh correlation: its state and its last_updated.
C10_ResyncUpdatesRecord ==
    last.op = "sync_mirrors" =>
        \A u \in last.reverified :
            /\ Get(mirrors, u).entanglement_verified = (lastScore[u] > Threshold)
            /\ Get(mirrors, u).last_updated = last.time

----------------------------------------------------------------------------
(* Properties of mirror_website (checked under SpecCrawl)                  *)

Result == call.mirrored_pages
Done == call.pc = "done"

\* the pages reached from the root over the links of the pages in nodes
RECURSIVE Closure(_, _)
Closure(S, nodes) ==
    LET T == S \cup { v \in URLs : \E u \in S \cap nodes : v \in world.links[u] }
    IN  IF T = S THEN S ELSE Closure(T, nodes)

\* pages reachable from the root over the links of the site
Reachable == Closure({call.url}, URLs)

\* pages reachable from the root over the links of pages whose mirror succeeds
ReachableViaMirrored == Closure({call.url}, URLs \ world.failing)

Mirrorable(S) == S \ world.failing

C5_Original ==
    (Done /\ ~call.recursive /\ call.max_pages >= 1) =>
        /\ visited_urls = {call.url}
        /\ crawl_queue = {}
        /\ DOMAIN Result = {call.url}

\* C5 amended: with recursive = FALSE mirror_page is called for no url but
\* the root, no link enters the queue, and the result holds at most one
\* record: the root's when max_pages >= 1 and its mirror succeeds, none otherwise.
C5_NonRecursiveOnlyRoot ==
    (call.pc # "idle" /\ ~call.recursive) =>
        /\ visited_urls \subseteq {call.url}
        /\ crawl_queue \subseteq {call.url}
        /\ last.op = "mirror_page" => last.url = call.url
        /\ DOMAIN Result \subseteq {call.url}
        /\ Done => ( DOMAIN Result = {call.url}
                       <=> (call.max_pages >= 1 /\ call.url \notin world.failing) )

\* witness of C5: a non-recursive crawl returned the root alone although the
\* root page links to other pages of the site
C5_Witness ==
    /\ Done /\ ~call.recursive
    /\ DOMAIN Result = {call.url}
    /\ world.links[call.url] \cap (URLs \ {call.url}) # {}
    /\ call.max_pages >= 2

\* C6: a failing page never aborts the crawl: the crawl returns a record for
\* every page it processed whose mirror did not fail; a recursive crawl over
\* 5 pages of which exactly one fails at the fetch returns the 4 others.
C6_PartialFailureTolerated ==
    Done =>
        /\ call.failed = visited_urls \cap world.failing
        /\ DOMAIN Result = visited_urls \ world.failing
        /\ \A u \in DOMAIN Result : Result[u] # None /\ Result[u].http_url = u
        /\ (call.recursive /\ call.max_pages >= 5 /\ Cardinality(visited_urls) = 5
              /\ Cardinality(visited_urls \cap world.failing) = 1)
             => Size(Result) = 4

\* witness of C6: a recursive crawl over 5 pages, one of which failed at the
\* fetch before the others were mirrored, returned 4 records
C6_Witness ==
    /\ Done /\ call.recursive /\ call.max_pages >= 5
    /\ Cardinality(visited_urls) = 5
    /\ Cardinality(call.failed) = 1
    /\ world.kind = "fetch_status"
    /\ Size(Result) = 4
    /\ Mirrored(last)

\* C8: an entangler error during mirror_page counts as score 0: the call
\* still stores and returns a record, not entanglement_verified (DEGRADED),
\* and a crawl that made the call has the page in its result.
C8_VerifierErrorGivesDegraded ==
    (last.op = "mirror_page" /\ last.fault = "verify") =>
        /\ last.result # None
        /\ ~last.result.entanglement_verified
        /\ last.url \in Keys(mirrors)
        /\ call.pc # "idle" => last.url \in DOMAIN Result

----------------------------------------------------------------------------
(* Resync ticks: pages are mirrored once, then sync_mirrors runs           *)
(* periodically.  verifier[u] is the correlation the entangler returns     *)
(* for the record of u when asked; it drifts between ticks.                *)

MaxTicks == 2

\* sync_mirrors passes run so far (every other operation adds one record)
Ticks == clock - Len(mirrors)

\* await mirror_page(url) for a page that has no record yet
FirstMirror ==
    /\ last.op # "sync_mirrors"
    /\ \E url \in DirectUrls \ Keys(mirrors), s \in Scores :
         LET sc == Scn("none", Body(url), s, "ok")
             r == mirror_page(Engine, url, sc)
         IN  /\ mirrors' = r.mirrors
             /\ dht' = r.dht
             /\ registry' = r.registry
             /\ lastScore' = r.lastScore
             /\ fetches' = r.fetches
             /\ verifier' = Put(verifier, url, s)
             /\ last' = [ op |-> "mirror_page", url |-> url, fault |-> sc.fault,
                          reg |-> sc.reg, result |-> r.result, reverified |-> {},
                          raised |-> FALSE, time |-> clock ]
    /\ clock' = clock + 1
    /\ UNCHANGED << tasks, quantum_backends, superposition_chain, lightworkers,
                    cell_ownership, crawl_queue, visited_urls, world, call >>

\* one tick of the periodic resync: the correlations have drifted to v,
\* then await sync_mirrors()
ResyncTick ==
    /\ mirrors # << >>
    /\ Ticks < MaxTicks
    /\ \E v \in [ Keys(mirrors) -> Scores ],
          stop \in {0} \cup { i \in 1..Len(mirrors) : ~mirrors[i].entanglement_verified } :
         LET r == sync_mirrors(Engine, v, stop)
         IN  /\ mirrors' = r.mirrors
             /\ lastScore' = r.lastScore
             /\ verifier' = v
             /\ last' = [ op |-> "sync_mirrors", url |-> Home, fault |-> "none",
                          reg |-> "ok", result |-> None, reverified |-> r.reverified,
                          raised |-> (stop # 0), time |-> clock ]
    /\ clock' = clock + 1
    /\ UNCHANGED << tasks, quantum_backends, superposition_chain, lightworkers,
                    cell_ownership, crawl_queue, visited_urls, dht, registry,
                    fetches, world, call >>

NextResync == FirstMirror \/ ResyncTick

SpecResync == Init /\ [][NextResync]_vars

\* C11: if a record is entanglement_verified (CONSISTENT) after one
\* sync_mirrors pass and its correlation has dropped below 0.7 when the next
\* pass runs, the record is not entanglement_verified (DEGRADED) after that pass.
C11_DropDegradesAtNextTick ==
    [][ ( /\ last.op = "sync_mirrors" /\ ~last.raised
          /\ last'.op = "sync_mirrors" /\ ~last'.raised
          /\ clock' = clock + 1 ) =>
            \A u \in Keys(mirrors) :
                ( /\ Get(mirrors, u).entanglement_verified
                  /\ verifier[u] > Threshold
                  /\ verifier'[u] < Threshold )
                    => ~Get(mirrors', u).entanglement_verified ]_vars

----------------------------------------------------------------------------
(* Termination of mirror_website (checked under SpecCrawlFair)             *)

\* chains, trees, rings of pages that link to themselves and pairs that
\* link to each other, with every set of failing pages (the step at which
\* a page fails makes no difference to the loop)
FairWorlds ==
    { World(g, f, "fetch_status") : g \in { Chain, Ring, Tree, Pair, Lone }, f \in SUBSET URLs }

InitCrawlFair ==
    /\ quantum_backends = Backends(mirror_replication)
    /\ world \in FairWorlds
    /\ InitEngine

\* the event loop keeps running the coroutine and every awaited call returns
SpecCrawlFair == InitCrawlFair /\ [][NextCrawl]_vars /\ WF_vars(NextCrawl)

\* pages not yet visited, then entries left in the queue
Variant == (NumUrls - Cardinality(visited_urls)) * (NumUrls + 1) + Cardinality(crawl_queue)

\* C12: mirror_website terminates for every link graph (cycles and
\* self-links included), every max_pages and every pattern of failing pages:
\* visited_urls only grows, every iteration of the loop lowers a bounded
\* natural number, and the call returns.
C12_Terminates ==
    /\ [][ (call.pc = "loop" /\ call'.pc = "loop") =>
              /\ visited_urls \subseteq visited_urls'
              /\ Variant' < Variant
              /\ Variant' >= 0 ]_vars
    /\ <>Done

\* witness of C12: a crawl of a ring of pages that link to themselves, some
\* of them failing, has visited every page and returned
C12_Witness ==
    /\ Done
    /\ world.links = Ring
    /\ world.failing # {}
    /\ visited_urls = URLs
    /\ \A u \in URLs : u \in world.links[u]

----------------------------------------------------------------------------
(* Concurrent mirror_website calls on one QuantumWebMirror.  Each call is  *)
(* a coroutine in tasks; it runs from one await to the next without        *)
(* interruption and the event loop interleaves the calls at the awaits of  *)
(* mirror_page (line 129) and extract_links (line 137).  crawl_queue and   *)
(* visited_urls are the attributes of the one object; mirrored_pages and   *)
(* current_url are locals of the call.                                     *)

MaxCalls == 2

\* lines 120-126, from the loop condition to the next await or the exit:
\* entries are popped in arbitrary order, visited ones are skipped
LoopHead(queue, visited, pages, max_pages) ==
    IF ~Crawling(queue, pages, max_pages)
    THEN { [ go |-> FALSE, url |-> Home, queue |-> queue ] }
    ELSE { [ go |-> TRUE, url |-> u, queue |-> queue \ (V \cup {u}) ] :
             u \in queue \ visited, V \in SUBSET (queue \cap visited) }
         \cup ( IF queue \subseteq visited
                THEN { [ go |-> FALSE, url |-> Home, queue |-> {} ] }
                ELSE {} )

\* the call t after the loop head came out with h
Resumed(t, pages, h) ==
    [ t EXCEPT !.pc = IF h.go THEN "mirror_page" ELSE "done",
               !.current_url = h.url,
               !.mirrored_pages = pages,
               !.processed = IF h.go THEN @ \cup {h.url} ELSE @ ]

\* two strands of pages that do not link to each other: 1 -> 3 -> 5, 2 -> 4
Twin == [ u \in URLs |-> {u + 2} \cap URLs ]

\* the worlds of the concurrent crawls: every page can be mirrored
SoundWorlds == { World(g, {}, "none") : g \in { Twin, Ring, Lone } }

InitTwoCrawls ==
    /\ quantum_backends = Backends(mirror_replication)
    /\ world \in SoundWorlds
    /\ InitEngine

\* mirror_website(url, recursive, max_pages) is called: lines 114-117 and
\* the loop up to the await of mirror_page
CrawlCall ==
    /\ Len(tasks) < MaxCalls
    /\ \E url \in DirectUrls \ { tasks[j].url : j \in 1..Len(tasks) },
          recursive \in BOOLEAN, max_pages \in 0..MaxPages :
         \E h \in LoopHead({url}, {}, << >>, max_pages) :
            /\ tasks' = Append(tasks,
                   Resumed([ kind |-> "mirror_website", pc |-> "called", url |-> url,
                             recursive |-> recursive, max_pages |-> max_pages,
                             mirrored_pages |-> << >>, current_url |-> url,
                             processed |-> {} ], << >>, h))
            /\ crawl_queue' = h.queue
            /\ visited_urls' = IF h.go THEN visited_add({}, h.url) ELSE {}
    /\ UNCHANGED << verifier, quantum_backends, superposition_chain, lightworkers,
                    cell_ownership, mirrors, dht, registry, clock, fetches,
                    lastScore, last, world, call >>

\* mirror_page returns to the call: lines 129-137 up to the await of
\* extract_links, or on through the loop head
CrawlMirrored ==
    \E i \in 1..Len(tasks) :
        /\ tasks[i].pc = "mirror_page"
        /\ LET t == tasks[i]
               sc == CrawlScenario(world, t.current_url)
               r == mirror_page(Engine, t.current_url, sc)
               pages == collect(t.mirrored_pages, t.current_url, r.result)
               extract == r.result # None /\ Extracting(t.recursive, pages, t.max_pages)
           IN  /\ mirrors' = r.mirrors
               /\ dht' = r.dht
               /\ registry' = r.registry
               /\ lastScore' = r.lastScore
               /\ fetches' = r.fetches
               /\ clock' = clock + 1
               /\ last' = [ op |-> "mirror_page", url |-> t.current_url,
                            fault |-> sc.fault, reg |-> sc.reg, result |-> r.result,
                            reverified |-> {}, raised |-> FALSE, time |-> clock ]
               /\ IF extract
                  THEN /\ tasks' = [ tasks EXCEPT ![i] =
                                       [ t EXCEPT !.pc = "extract_links",
                                                  !.mirrored_pages = pages ] ]
                       /\ UNCHANGED << crawl_queue, visited_urls >>
                  ELSE \E h \in LoopHead(crawl_queue, visited_urls, pages, t.max_pages) :
                          /\ tasks' = [ tasks EXCEPT ![i] = Resumed(t, pages, h) ]
                          /\ crawl_queue' = h.queue
                          /\ visited_urls' = IF h.go THEN visited_add(visited_urls, h.url)
                                                     ELSE visited_urls
        /\ UNCHANGED << verifier, quantum_backends, superposition_chain, lightworkers,
                    cell_ownership, world, call >>

\* extract_links returns to the call: line 138 and on through the loop head
CrawlExtracted ==
    \E i \in 1..Len(tasks) :
        /\ tasks[i].pc = "extract_links"
        /\ LET t == tasks[i]
               links == extract_links(world, t.current_url, "ok")
           IN  \E h \in LoopHead(crawl_queue \cup links, visited_urls,
                                 t.mirrored_pages, t.max_pages) :
                  /\ tasks' = [ tasks EXCEPT ![i] = Resumed(t, t.mirrored_pages, h) ]
                  /\ crawl_queue' = h.queue
                  /\ visited_urls' = IF h.go THEN visited_add(visited_urls, h.url)
                                             ELSE visited_urls
        /\ UNCHANGED << verifier, quantum_backends, superposition_chain, lightworkers,
                    cell_ownership, mirrors, dht, registry, clock, fetches,
                        lastScore, last, world, call >>

NextTwoCrawls == CrawlCall \/ CrawlMirrored \/ CrawlExtracted

SpecTwoCrawls == InitTwoCrawls /\ [][NextTwoCrawls]_vars

\* pages reachable from a root over the links of the site
ReachableFrom(root) == Closure({root}, URLs)

\* C13: the queue and the visited set belong to one mirror_website call: of
\* two calls with different roots running concurrently, each processes and
\* returns only pages reachable from its own root, returns at most its own
\* max_pages, and loses no page: a recursive call whose max_pages covers
\* the pages reachable from its root returns them all.
C13_CrawlsAreIsolated ==
    \A i \in 1..Len(tasks) :
        LET t == tasks[i]
        IN  /\ Size(t.mirrored_pages) <= t.max_pages
            /\ t.processed \subseteq ReachableFrom(t.url)
            /\ DOMAIN t.mirrored_pages \subseteq ReachableFrom(t.url)
            /\ ( t.pc = "done" /\ t.recursive
                   /\ t.max_pages >= Cardinality(ReachableFrom(t.url)) )
                 => DOMAIN t.mirrored_pages = ReachableFrom(t.url)

----------------------------------------------------------------------------
(* Concurrent mirror_page and sync_mirrors coroutines on one               *)
(* QuantumWebMirror.  A coroutine runs from one await to the next without  *)
(* interruption.  mirror_page awaits the fetch (line 163), then puts the   *)
(* content into the DHT and awaits the DHT, the entangler and the name     *)
(* system (lines 185-198); the record is built and assigned to             *)
(* self.mirrors[url] without a further await (lines 200-212).              *)
(* sync_mirrors awaits the entangler inside its loop over                  *)
(* self.mirrors.items() (lines 496-503).  The clock ticks when a           *)
(* coroutine reads time.time().                                            *)

MaxTasks == 3

\* await mirror_page(url) is started: the fetch is issued
PageCallFor(url) ==
    /\ tasks' = Append(tasks, [ kind |-> "mirror_page", pc |-> "fetch", url |-> url,
                                content |-> 0, address |-> None, score |-> 0,
                                finished |-> 0, result |-> None ])
    /\ fetches' = fetches + 1
    /\ UNCHANGED << verifier, quantum_backends, superposition_chain, lightworkers,
                    cell_ownership, mirrors, crawl_queue, visited_urls, dht,
                    registry, clock, lastScore, last, world, call >>

PageCall ==
    /\ Len(tasks) < MaxTasks
    /\ \E url \in DirectUrls : PageCallFor(url)

\* the fetch answers: a status other than 200 ends the call with None
\* (lines 164-166); else the body is hashed and put into the DHT (lines 168-189)
PageFetched ==
    \E i \in 1..Len(tasks) :
        /\ tasks[i].pc = "fetch"
        /\ \/ /\ tasks' = [ tasks EXCEPT ![i].pc = "done" ]
              /\ UNCHANGED << dht, clock >>
           \/ \E content \in Contents :
                /\ dht' = store_with_quantum_mirrors(dht, quantum_backends, content,
                                                     tasks[i].url, clock)
                /\ tasks' = [ tasks EXCEPT ![i].pc = "stored", ![i].content = content,
                                ![i].address = store_content(tasks[i].url, content, clock) ]
                /\ clock' = clock + 1
        /\ UNCHANGED << verifier, quantum_backends, superposition_chain, lightworkers,
                    cell_ownership, mirrors, crawl_queue, visited_urls,
                        registry, fetches, lastScore, last, world, call >>

\* the entangler and the name system have answered: the record is built
\* and assigned (lines 192-213)
PageFinished ==
    \E i \in 1..Len(tasks) :
        /\ tasks[i].pc = "stored"
        /\ \E score \in Scores :
             LET t == tasks[i]
                 rec == MirrorRecord(t.url, t.address, content_hash(t.content),
                                     quantum_backends, clock, entangle_mirrors(score))
             IN  /\ mirrors' = DictSet(mirrors, rec)
                 /\ registry' = register_url_mapping(registry, t.url, t.address, "ok")
                 /\ lastScore' = Put(lastScore, t.url, score)
                 /\ tasks' = [ tasks EXCEPT ![i].pc = "done", ![i].score = score,
                                 ![i].finished = clock, ![i].result = rec ]
                 /\ last' = [ op |-> "mirror_page", url |-> t.url, fault |-> "none",
                              reg |-> "ok", result |-> rec, reverified |-> {},
                              raised |-> FALSE, time |-> clock ]
        /\ clock' = clock + 1
        /\ UNCHANGED << verifier, quantum_backends, superposition_chain, lightworkers,
                    cell_ownership, crawl_queue, visited_urls, dht, fetches,
                        world, call >>

\* next(iterator) of the loop of line 496, continued to the next record that
\* is not entanglement_verified: a dict whose size differs from the size at
\* the creation of the iterator raises RuntimeError
NextDue(m, size, pos) ==
    LET due == { j \in pos + 1 .. Len(m) : ~m[j].entanglement_verified }
    IN  IF Len(m) # size THEN [ pc |-> "raised", pos |-> pos ]
        ELSE IF due = {} THEN [ pc |-> "done", pos |-> Len(m) ]
        ELSE [ pc |-> "entangle", pos |-> CHOOSE j \in due : \A k \in due : j <= k ]

\* the sync_mirrors coroutine t after next(iterator) came out with n
Advanced(t, m, n) ==
    [ t EXCEPT !.pc = n.pc, !.pos = n.pos,
               !.measuring = IF n.pc = "entangle" THEN m[n.pos] ELSE None ]

\* await sync_mirrors() is started: the iterator is created and the loop
\* runs to its first await
SyncCall ==
    /\ Len(tasks) < MaxTasks
    /\ tasks' = Append(tasks,
           Advanced([ kind |-> "sync_mirrors", pc |-> "called", pos |-> 0,
                      size |-> Len(mirrors),
                      due |-> { r \in Records : ~r.entanglement_verified },
                      reverified |-> {}, measuring |-> None ],
                    mirrors, NextDue(mirrors, Len(mirrors), 0)))
    /\ UNCHANGED << verifier, quantum_backends, superposition_chain, lightworkers,
                    cell_ownership, mirrors, crawl_queue, visited_urls, dht,
                    registry, clock, fetches, lastScore, last, world, call >>

\* the entangler answers (its answer is dropped, lines 500-503) and the loop
\* runs to its next await, its end or its exception
SyncResumed ==
    \E i \in 1..Len(tasks) :
        /\ tasks[i].pc = "entangle"
        /\ \E score \in Scores :
             LET t == tasks[i]
                 u == t.measuring.http_url
             IN  /\ lastScore' = IF Get(mirrors, u) = t.measuring
                                 THEN Put(lastScore, u, score) ELSE lastScore
                 /\ tasks' = [ tasks EXCEPT ![i] =
                                 Advanced([ t EXCEPT !.reverified = @ \cup {t.measuring} ],
                                          mirrors, NextDue(mirrors, t.size, t.pos)) ]
        /\ UNCHANGED << verifier, quantum_backends, superposition_chain, lightworkers,
                    cell_ownership, mirrors, crawl_queue, visited_urls, dht,
                        registry, clock, fetches, last, world, call >>

NextTasks == PageCall \/ PageFetched \/ PageFinished \/ SyncCall \/ SyncResumed

SpecTasks == Init /\ [][NextTasks]_vars

Passes == { i \in 1..Len(tasks) : tasks[i].kind = "sync_mirrors" }
Pages == { i \in 1..Len(tasks) : tasks[i].kind = "mirror_page" }

\* C14: a sync_mirrors pass that runs while mirror_page calls insert records
\* ends without an exception and has measured again every record that was
\* not entanglement_verified at its start and is still stored.
C14_PassSurvivesInserts ==
    \A i \in Passes :
        /\ tasks[i].pc # "raised"
        /\ tasks[i].pc = "done" =>
              \A r \in tasks[i].due : r \in tasks[i].reverified \/ r \notin Records

----------------------------------------------------------------------------
(* Concurrent mirror_page calls for one url (checked under SpecPages)      *)

MaxMirrorCalls == 2

\* a further mirror_page call for the root page is started
SamePageCall ==
    /\ Len(tasks) < MaxMirrorCalls
    /\ PageCallFor(Home)

NextPages == SamePageCall \/ PageFetched \/ PageFinished

SpecPages == Init /\ [][NextPages]_vars

\* the mirror_page calls that have assigned a record for url
Upserted(url) ==
    { i \in Pages : tasks[i].url = url /\ tasks[i].pc = "done" /\ tasks[i].result # None }

\* the one of them that assigned last
LastWriter(url) ==
    CHOOSE i \in Upserted(url) : \A j \in Upserted(url) : tasks[j].finished <= tasks[i].finished

\* C15: of concurrent mirror_page calls for one url, the store holds exactly
\* the record of the call that assigned last, every field of it from that
\* one call (its body, its DHT address, its correlation, its time), and
\* reading the key right after an assignment returns the assigned record.
C15_LastWriterWins ==
    /\ \A u \in Keys(mirrors) :
          /\ Upserted(u) # {}
          /\ LET w == tasks[LastWriter(u)]
                 r == Get(mirrors, u)
             IN  /\ r = w.result
                 /\ r.content_hash = content_hash(w.content)
                 /\ r.luxbin_address = w.address
                 /\ r.entanglement_verified = entangle_mirrors(w.score)
                 /\ r.last_updated = w.finished
                 /\ r.http_url = u
    /\ \A u \in DirectUrls : Upserted(u) # {} => u \in Keys(mirrors)
    /\ Mirrored(last) => Get(mirrors, last.url) = last.result

\* witness of C15: two calls for one url overlapped and fetched different
\* bodies; the call started first assigned last, and its record is the stored one
C15_Witness ==
    /\ Len(tasks) >= 2
    /\ tasks[1].url = tasks[2].url
    /\ tasks[1].pc = "done" /\ tasks[2].pc = "done"
    /\ tasks[1].result # None /\ tasks[2].result # None
    /\ tasks[1].content # tasks[2].content
    /\ tasks[1].score # tasks[2].score
    /\ tasks[2].address.ts < tasks[1].address.ts
    /\ tasks[2].finished < tasks[1].finished
    /\ Get(mirrors, tasks[1].url) = tasks[1].result

----------------------------------------------------------------------------
(* The whole engine: a direct mirror_page call and sync_mirrors passes,    *)
(* then one mirror_website call (SpecEngine); a mirror_website call that   *)
(* may be cancelled (SpecCancel)                                           *)

\* the awaits of mirror_page at which a cancellation can arrive, and the
\* step of mirror_page that has not been done when it does
CancelPoints == { "fetch", "store", "entangle", "register" }

Pending(point) ==
    CASE point = "fetch"    -> "fetch_error"
      [] point = "store"    -> "store"
      [] point = "entangle" -> "verify"
      [] point = "register" -> "register"

\* mutant of cancel_mirror_page: the records the call has stored are taken back
cancel_with_rollback(st, url, sc, point) ==
    LET Kept(r) == r.http_url \notin DOMAIN call.mirrored_pages
    IN  [ mirror_page(st, url, [ sc EXCEPT !.fault = Pending(point) ])
            EXCEPT !.mirrors = SelectSeq(st.mirrors, Kept) ]

\* mirror_page(url) cancelled at an await: asyncio.CancelledError is raised
\* there; it is no Exception, so the except clause of line 215 lets it
\* pass; what was done before the await stays done
cancel_mirror_page(st, url, sc, point) ==
    mirror_page(st, url, [ sc EXCEPT !.fault = Pending(point) ])

\* the mirror_website call is cancelled while it awaits mirror_page (line
\* 129) or extract_links (line 137): the exception leaves mirror_website
MirrorWebsiteCancel ==
    /\ call.pc = "loop"
    /\ Crawling(crawl_queue, call.mirrored_pages, call.max_pages)
    /\ \E current_url \in (crawl_queue \ visited_urls) \ world.failing :
         LET sc == CrawlScenario(world, current_url)
         IN  \/ \E point \in CancelPoints :
                  LET r == cancel_mirror_page(Engine, current_url, sc, point)
                  IN  /\ mirrors' = r.mirrors
                      /\ dht' = r.dht
                      /\ registry' = r.registry
                      /\ lastScore' = r.lastScore
                      /\ fetches' = r.fetches
                      /\ call' = [ call EXCEPT !.pc = "cancelled" ]
                      /\ last' = [ op |-> "cancel", url |-> current_url, fault |-> point,
                                   reg |-> sc.reg, result |-> None, reverified |-> {},
                                   raised |-> TRUE, time |-> clock ]
             \/ LET r == mirror_page(Engine, current_url, sc)
                    pages == collect(call.mirrored_pages, current_url, r.result)
                IN  /\ Extracting(call.recursive, pages, call.max_pages)
                    /\ mirrors' = r.mirrors
                    /\ dht' = r.dht
                    /\ registry' = r.registry
                    /\ lastScore' = r.lastScore
                    /\ fetches' = r.fetches
                    /\ call' = [ call EXCEPT !.pc = "cancelled", !.mirrored_pages = pages ]
                    /\ last' = [ op |-> "cancel", url |-> current_url,
                                 fault |-> "extract_links", reg |-> sc.reg,
                                 result |-> r.result, reverified |-> {},
                                 raised |-> TRUE, time |-> clock ]
         /\ visited_urls' = visited_add(visited_urls, current_url)
         /\ crawl_queue' = crawl_queue \ {current_url}
    /\ clock' = clock + 1
    /\ UNCHANGED << verifier, tasks, quantum_backends, superposition_chain, lightworkers,
                    cell_ownership, world >>

\* the webs the engine is run on
EngineWorlds == { World(Ring, {}, "none"), World(Chain, {2}, "verify"),
                  World(Tree, {3}, "fetch_status"), World(Lone, {}, "none") }

InitWorld ==
    /\ quantum_backends = Backends(mirror_replication)
    /\ world \in EngineWorlds
    /\ InitEngine

\* the root page is mirrored and the store is synced, then the site is crawled
NextEngine ==
    \/ (call.pc = "idle" /\ mirrors = << >> /\ MirrorPage /\ Mirrored(last') /\ last'.url = Home)
    \/ (call.pc = "idle" /\ SyncMirrors)
    \/ MirrorWebsiteStart
    \/ MirrorWebsiteLoop
    \/ MirrorWebsiteReturn

SpecEngine == InitWorld /\ [][NextEngine]_vars

\* a site is crawled and the crawl may be cancelled
NextCancel ==
    \/ MirrorWebsiteStart
    \/ MirrorWebsiteLoop
    \/ MirrorWebsiteReturn
    \/ MirrorWebsiteCancel

\* the webs a cancelled crawl runs on
CancelWorlds ==
    { World(g, f, k) : g \in { Chain, Ring, Tree, Pair, Lone }, f \in SUBSET URLs,
                       k \in CrawlFaults }

InitCancel ==
    /\ quantum_backends = Backends(mirror_replication)
    /\ world \in CancelWorlds
    /\ InitEngine

SpecCancel == InitCancel /\ [][NextCancel]_vars

\* C16: the content_hash of a record never changes after the record was
\* built: no step edits a stored record, and when the hash stored for a
\* url changes, a mirror_page call has just replaced the record by a new
\* one, built by that call from the body it fetched.
C16_FingerprintImmutable ==
    [][ \A u \in Keys(mirrors) \cap Keys(mirrors') :
           LET old == Get(mirrors, u)
               new == Get(mirrors', u)
           IN  /\ new.last_updated = old.last_updated => new = old
               /\ new.content_hash # old.content_hash =>
                     /\ last'.op = "mirror_page" /\ last'.url = u
                     /\ new = last'.result
                     /\ new.last_updated = last'.time
                     /\ new.last_updated > old.last_updated
                     /\ new.luxbin_address.hash = new.content_hash ]_vars

\* witness of C16: a page whose body has changed was mirrored again; the
\* store holds the new record and the name system still knows the address
\* of the old body
C16_Witness ==
    /\ Mirrored(last)
    /\ Get(mirrors, last.url) = last.result
    /\ \E e \in registry : /\ e.name = << netloc(last.url), last.url >>
                           /\ e.luxbin_address.hash # last.result.content_hash
                           /\ e.luxbin_address.ts < last.result.last_updated

----------------------------------------------------------------------------
(* Record states.  A MirrorRecord carries the flag entanglement_verified   *)
(* and no other state field (lines 35-45).                                 *)

State(r) == IF r.entanglement_verified THEN "CONSISTENT" ELSE "DEGRADED"

\* the mirror_page calls whose entangler has not answered yet
Unverified == { i \in Pages : tasks[i].pc \in { "fetch", "stored" } }

\* C17: a record exists in state PENDING from the start of mirror_page
\* until the entangler returns the first correlation; from then on it is
\* CONSISTENT or DEGRADED and never PENDING again.
C17_PendingUntilVerified ==
    /\ \A i \in Unverified :
          /\ tasks[i].url \in Keys(mirrors)
          /\ State(Get(mirrors, tasks[i].url)) = "PENDING"
    /\ \A i \in Pages \ Unverified :
          tasks[i].result # None => State(tasks[i].result) \in { "CONSISTENT", "DEGRADED" }

----------------------------------------------------------------------------
(* The set of mirrored urls (checked under SpecEngine)                     *)

\* C18: no operation removes a url from the store: over every step of
\* mirror_page, of sync_mirrors and of mirror_website (the reset at its
\* start included) the keys of self.mirrors only grow.
C18_KeysOnlyGrow ==
    [][ /\ Keys(mirrors) \subseteq Keys(mirrors')
        /\ Len(mirrors') >= Len(mirrors) ]_vars

\* witness of C18: the root page was mirrored with a weak correlation, a
\* sync_mirrors pass measured it again and found it weak again, then a crawl
\* was started and reset its queue; the record is still stored
C18_Witness ==
    /\ call.pc = "loop"
    /\ visited_urls = {}
    /\ crawl_queue = {call.url}
    /\ last.op = "sync_mirrors" /\ ~last.raised
    /\ last.reverified = {call.url}
    /\ lastScore[call.url] < Threshold
    /\ call.url \in Keys(mirrors)

----------------------------------------------------------------------------
(* last_updated of the stored records (checked under Spec)                 *)

\* C19: the last_updated of the record stored for a url never decreases
\* over mirror_page calls and sync_mirrors passes, and it advances in every
\* sync_mirrors pass that measures the record again.
C19_LastUpdatedAdvances ==
    [][ \A u \in Keys(mirrors) :
           /\ u \in Keys(mirrors')
           /\ Get(mirrors', u).last_updated >= Get(mirrors, u).last_updated
           /\ (last'.op = "sync_mirrors" /\ clock' = clock + 1 /\ u \in last'.reverified)
                 => Get(mirrors', u).last_updated > Get(mirrors, u).last_updated ]_vars

----------------------------------------------------------------------------
(* Cancellation of mirror_website (checked under SpecCancel)               *)

\* a record with every field set, whose address is the address of its
\* content in the DHT
Complete(r) ==
    /\ r.http_url \in URLs
    /\ r.content_hash \in { content_hash(c) : c \in Contents }
    /\ r.luxbin_address # None
    /\ r.luxbin_address.hash = r.content_hash
    /\ Len(r.mirror_nodes) = mirror_replication
    /\ r.last_updated \in 0..clock
    /\ r.entanglement_verified \in BOOLEAN
    /\ \E e \in dht : /\ e.luxbin_address = r.luxbin_address
                      /\ e.source_url = r.http_url
                      /\ content_hash(e.content) = r.content_hash

\* C20: when a mirror_website call is cancelled in the middle of a crawl,
\* every record the call has stored stays in the store as it was (nothing
\* is rolled back), and the store holds one record per url, each complete.
C20_CancelKeepsRecords ==
    /\ [][ (call.pc = "loop" /\ call'.pc = "cancelled") =>
              /\ \A r \in Records : r \in Records'
              /\ \A u \in DOMAIN call.mirrored_pages :
                    /\ u \in Keys(mirrors')
                    /\ Get(mirrors', u) = call.mirrored_pages[u] ]_vars
    /\ [](call.pc = "cancelled" =>
              /\ \A i, j \in 1..Len(mirrors) : mirrors[i].http_url = mirrors[j].http_url => i = j
              /\ \A r \in Records : Complete(r))

\* witness of C20: a crawl that had stored two records or more was
\* cancelled while it awaited the entangler for a further page, whose
\* content is in the DHT and which has no record
C20_Witness ==
    /\ call.pc = "cancelled"
    /\ Size(call.mirrored_pages) >= 2
    /\ last.op = "cancel" /\ last.fault = "entangle"
    /\ last.url \notin Keys(mirrors)
    /\ \E e \in dht : e.source_url = last.url
    /\ \A u \in DOMAIN call.mirrored_pages : Get(mirrors, u) = call.mirrored_pages[u]

\* ---------------------------------------------------------------------
\* Order of the effects of one mirror_page call
\* ---------------------------------------------------------------------

\* mirror_page calls made one after the other on a fresh engine
SpecMirrorPage == Init /\ [][MirrorPage]_vars

\* the DHT entry that store_with_quantum_mirrors put for the record r
PutFor(r, d) ==
    { e \in d : /\ e.luxbin_address = r.luxbin_address
                /\ e.source_url = r.http_url
                /\ e.mirror_timestamp <= r.last_updated }

\* the name the name system holds for the record r
NameFor(r, reg) ==
    { n \in reg : n.name = << netloc(r.http_url), r.http_url >>
                  /\ n.luxbin_address = r.luxbin_address }

\* C21: one mirror_page call changes nothing but the DHT (put), the name
\* system (registration) and self.mirrors (upsert), in that order with the
\* entangler asked between put and registration: a call that did not put
\* registers and records nothing, a call whose entangler raised has put but
\* neither registered nor recorded, a call whose registration raised has
\* recorded nothing; so every record in self.mirrors has its content in the
\* DHT, put no later than the record was written.
C21_EffectsInOrder ==
    [][ /\ \A r \in Records' : PutFor(r, dht') # {}
        /\ (clock' = clock + 1 /\ last'.op = "mirror_page") =>
             /\ UNCHANGED << quantum_backends, crawl_queue, visited_urls >>
             /\ dht \subseteq dht' /\ registry \subseteq registry'
             /\ Keys(mirrors) \subseteq Keys(mirrors')
             /\ (dht' = dht) => (registry' = registry /\ mirrors' = mirrors)
             /\ (last'.fault = "verify") => (registry' = registry /\ mirrors' = mirrors)
             /\ (registry' # registry) =>
                    /\ mirrors' # mirrors
                    /\ \E n \in registry' \ registry :
                          \E e \in dht' \ dht : e.luxbin_address = n.luxbin_address
             /\ (last'.fault = "register") => (mirrors' = mirrors)
             /\ (mirrors' # mirrors) =>
                    /\ last'.result = Get(mirrors', last'.url)
                    /\ PutFor(last'.result, dht' \ dht) # {}
                    /\ (last'.reg = "ok") => NameFor(last'.result, registry') # {} ]_vars

\* witness of C21: a call has put, registered and recorded, and an earlier
\* call for another url stopped after its put
C21_Witness ==
    /\ Mirrored(last)
    /\ PutFor(last.result, dht) # {}
    /\ NameFor(last.result, registry) # {}
    /\ \E e \in dht : e.source_url # last.url /\ e.source_url \notin Keys(mirrors)

\* ---------------------------------------------------------------------
\* Replica placement
\* ---------------------------------------------------------------------

\* nodes is the head of the configured backend list, at most
\* mirror_replication entries long, in the order of the list
HeadOfBackends(nodes) ==
    /\ Len(nodes) = IF Len(quantum_backends) < mirror_replication
                    THEN Len(quantum_backends) ELSE mirror_replication
    /\ \A i \in 1..Len(nodes) : nodes[i] = quantum_backends[i]

\* mirror_page calls that reach the DHT put, on any configured backend list
MirrorPagePlaced ==
    /\ MirrorPage
    /\ last'.fault \in { "none", "verify" }
    /\ last'.reg = "ok"

SpecPlacement == InitConfig /\ [][MirrorPagePlaced]_vars

\* C22: the mirror_nodes of every record are the first mirror_replication
\* entries of quantum_backends in list order, whatever the url and whatever
\* was mirrored before, and the mirror_nodes in the metadata of the DHT
\* entry put for the record are the same sequence.
C22_ReplicaSetIsHeadOfList ==
    /\ \A r \in Records :
          /\ HeadOfBackends(r.mirror_nodes)
          /\ \A e \in PutFor(r, dht) : e.mirror_nodes = r.mirror_nodes
    /\ \A e \in dht : HeadOfBackends(e.mirror_nodes)
    /\ Mirrored(last) => HeadOfBackends(last.result.mirror_nodes)

\* witness of C22: more backends are configured than are used, and two
\* urls have been mirrored
C22_Witness ==
    /\ Len(quantum_backends) > mirror_replication
    /\ \E r, q \in Records :
          /\ r.http_url # q.http_url
          /\ PutFor(r, dht) # {} /\ PutFor(q, dht) # {}
          /\ r.mirror_nodes = q.mirror_nodes

\* ---------------------------------------------------------------------
\* One mirror_page call per url in a crawl
\* ---------------------------------------------------------------------

\* a site whose pages 2 and 3 link to each other and back to the root
Diamond == [ u \in URLs |-> IF u = Home THEN {2, 3}
                            ELSE IF u \in {2, 3} THEN {5 - u, Home} ELSE {} ]

\* webs in which a page is linked from several pages
RevisitWorlds == { World(g, f, k) : g \in { Diamond, Pair, Ring }, f \in SUBSET URLs,
                                    k \in CrawlFaults }

InitRevisit ==
    /\ quantum_backends = Backends(mirror_replication)
    /\ world \in RevisitWorlds
    /\ InitEngine

SpecRevisit == InitRevisit /\ [][NextCrawl]_vars

\* the urls mirror_page has been called for in the running mirror_website
Tried == DOMAIN call.mirrored_pages \cup call.failed

\* C23: in one mirror_website call that is not interleaved with another,
\* mirror_page is called at most once per url: a popped url that is in
\* visited_urls is skipped, a url is in visited_urls from the moment
\* mirror_page is called for it, and a url whose mirror_page failed is not
\* tried again when a later page links to it.
C23_OneCallPerUrl ==
    /\ [][ /\ (fetches' # fetches) =>
                /\ fetches' = fetches + 1
                /\ last'.url \notin Tried
                /\ last'.url \notin visited_urls
                /\ last'.url \in visited_urls'
           /\ (call.pc = "loop" /\ call'.pc = "loop"
                 /\ \E u \in crawl_queue \cap visited_urls : crawl_queue' = crawl_queue \ {u}) =>
                (fetches' = fetches /\ call' = call /\ visited_urls' = visited_urls) ]_vars
    /\ [](call.pc # "idle" => (Tried = visited_urls /\ fetches = Cardinality(Tried)))

\* witness of C23: a url whose mirror_page failed was linked by a page
\* mirrored later and waits in the queue again
C23_Witness ==
    /\ call.pc = "loop"
    /\ call.failed \cap crawl_queue # {}
    /\ DOMAIN call.mirrored_pages # {}

\* ---------------------------------------------------------------------
\* Links that stay on the host but change the scheme
\* ---------------------------------------------------------------------

\* the pages 1..NumUrls are https pages of one host; Plain is a page of the
\* same host addressed with http, so its netloc is that of the site
Plain == Ext - 1

\* urlparse(url).scheme
scheme(url) == IF url = Plain THEN "http" ELSE "https"

\* the origin of a url: scheme and authority
origin(url) == << scheme(url), netloc(url) >>

\* a site whose root links to a page of its own, to the http address of
\* the host and to another site
Mixed == [ u \in URLs \cup {Plain} |->
             IF u = Home THEN {2, Plain, Ext}
             ELSE IF u = Plain THEN {3, Home}
             ELSE IF u = 2 THEN {Home, Ext} ELSE {} ]

SchemeWorlds == { World(g, f, k) : g \in { Mixed, Pair }, f \in SUBSET {Home, 2, Plain},
                                   k \in CrawlFaults }

InitSchemes ==
    /\ quantum_backends = Backends(mirror_replication)
    /\ world \in SchemeWorlds
    /\ InitEngine

SpecSchemes == InitSchemes /\ [][NextCrawl]_vars

C25_CrawlComplete ==
    (Done /\ call.recursive /\ Size(Result) < call.max_pages) =>
        /\ ReachableViaMirrored \subseteq visited_urls
        /\ DOMAIN Result = Mirrorable(ReachableViaMirrored)

\* the same for crawls none of whose link extractions came back empty-handed
CrawlCompleteUnlessLost ==
    (Done /\ call.recursive /\ Size(Result) < call.max_pages /\ ~call.lost) =>
        /\ ReachableViaMirrored = visited_urls
        /\ DOMAIN Result = Mirrorable(ReachableViaMirrored)

\* ---------------------------------------------------------------------
\* A failed mirror_page call and the record store
\* ---------------------------------------------------------------------

\* C26: a mirror_page call that fails at any step (fetch, encoding, DHT put,
\* entanglement, registration) returns None and leaves self.mirrors as it
\* was: no record is added and the record an earlier call stored for the
\* url is kept unchanged.
C26_FailureKeepsStore ==
    [][ (clock' = clock + 1 /\ last'.op = "mirror_page") =>
          /\ (last'.fault # "none") => last'.result = None
          /\ (last'.result = None) =>
                /\ mirrors' = mirrors
                /\ lastScore' = lastScore ]_vars

\* witness of C26: a call for a url that has a record failed at the
\* registration, after its put, and the record is the earlier call's
C26_Witness ==
    /\ last.op = "mirror_page"
    /\ last.fault = "register"
    /\ last.result = None
    /\ last.url \in Keys(mirrors)
    /\ Get(mirrors, last.url).last_updated < last.time
    /\ \E e \in dht : e.source_url = last.url /\ e.mirror_timestamp = last.time

\* ---------------------------------------------------------------------
\* The result of a crawl and the record store
\* ---------------------------------------------------------------------

\* C27: when a mirror_website call that is not interleaved with another
\* returns, every url of its result is a key of self.mirrors, self.mirrors
\* holds for it the very record the result maps it to, and every url of the
\* result is in visited_urls.
C27_ResultIsStored ==
    (call.pc \in { "loop", "done" }) =>
        \A u \in DOMAIN Result :
            /\ u \in Keys(mirrors)
            /\ Get(mirrors, u) = Result[u]
            /\ u \in visited_urls

\* witness of C27: a crawl returned two records or more, one of which
\* replaced the record a mirror_page call before the crawl had stored
C27_Witness ==
    /\ Done
    /\ Size(Result) >= 2
    /\ call.url \in DOMAIN Result
    /\ \E e \in dht : /\ e.source_url = call.url
                      /\ e.mirror_timestamp < Result[call.url].last_updated
    /\ visited_urls \ DOMAIN Result # {}

\* ---------------------------------------------------------------------
\* What a sync_mirrors pass leaves alone
\* ---------------------------------------------------------------------

\* await sync_mirrors() once, after a mirror_website call has returned
SyncAfterCrawl ==
    /\ call.pc = "done"
    /\ last.op # "sync_mirrors"
    /\ \E ans \in [ Degraded(mirrors) -> Scores ],
          stop \in {0} \cup { i \in 1..Len(mirrors) : ~mirrors[i].entanglement_verified } :
         LET r == sync_mirrors(Engine, ans, stop)
         IN  /\ mirrors' = r.mirrors
             /\ lastScore' = r.lastScore
             /\ last' = [ op |-> "sync_mirrors", url |-> Home, fault |-> "none",
                          reg |-> "ok", result |-> None, reverified |-> r.reverified,
                          raised |-> (stop # 0), time |-> clock ]
    /\ clock' = clock + 1
    /\ UNCHANGED << verifier, tasks, quantum_backends, superposition_chain, lightworkers,
                    cell_ownership, crawl_queue, visited_urls, dht, registry,
                    fetches, world, call >>

NextSyncAfterCrawl ==
    MirrorWebsiteStart \/ MirrorWebsiteLoop \/ MirrorWebsiteReturn \/ SyncAfterCrawl

SpecSyncAfterCrawl == InitWorld /\ [][NextSyncAfterCrawl]_vars

\* C28: a sync_mirrors pass adds no record and removes none, changes the
\* http_url, luxbin_address, content_hash and mirror_nodes of no record, and
\* leaves crawl_queue and visited_urls as they were; only the correlation,
\* entanglement_verified and last_updated of a record may differ after it.
C28_ResyncFrame ==
    [][ (clock' = clock + 1 /\ last'.op = "sync_mirrors") =>
          /\ Len(mirrors') = Len(mirrors)
          /\ \A i \in 1..Len(mirrors) :
                /\ mirrors'[i].http_url = mirrors[i].http_url
                /\ mirrors'[i].luxbin_address = mirrors[i].luxbin_address
                /\ mirrors'[i].content_hash = mirrors[i].content_hash
                /\ mirrors'[i].mirror_nodes = mirrors[i].mirror_nodes
          /\ crawl_queue' = crawl_queue
          /\ visited_urls' = visited_urls
          /\ dht' = dht /\ registry' = registry ]_vars

\* witness of C28: after a crawl that left urls in its queue, a pass has
\* measured a record again; two records or more are stored
C28_Witness ==
    /\ Done
    /\ last.op = "sync_mirrors"
    /\ last.reverified # {}
    /\ crawl_queue # {}
    /\ visited_urls # {}
    /\ Len(mirrors) >= 2

----------------------------------------------------------------------------
(* LUXBINSuperpositionBlockchain: create_superposition_block and           *)
(* verify_superposition, called one after the other                        *)

MaxBlocks == 3

\* block.entanglement_correlation > 0.7, in hundredths
SuperpositionThreshold == 70

Correlations == { SuperpositionThreshold - 1, SuperpositionThreshold,
                  SuperpositionThreshold + 1 }

\* "0" * 64
ZeroHash == [ zeros |-> 64 ]

\* the layers asked for: << mirror_chains, mirror_web, include_luxbin >>
LayerChoices == { << TRUE, TRUE, TRUE >>, << FALSE, TRUE, FALSE >> }

\* mirror_blockchains(): the three mocked chains, stamped with the time
mirror_blockchains(now) ==
    [ c \in { "bitcoin", "ethereum", "solana" } |-> [ mirrored_at |-> now ] ]

\* mirror_web_pages(): the sample urls that the web mirror holds a record of
mirror_web_pages(m) ==
    LET Sampled(r) == r.http_url \in DirectUrls
        held == SelectSeq(m, Sampled)
    IN  [ i \in 1..Len(held) |->
            [ url |-> held[i].http_url, luxbin_address |-> held[i].luxbin_address,
              content_hash |-> held[i].content_hash, mirrored_at |-> held[i].last_updated ] ]

\* get_pending_luxbin_transactions(): two transactions stamped with the time
get_pending_luxbin_transactions(now) ==
    << [ type |-> "NAME_REGISTER", timestamp |-> now ],
       [ type |-> "QUANTUM_OPERATION", timestamp |-> now ] >>

\* calculate_block_hash: sha256 of the json of index, timestamp,
\* previous_hash and the three layers
calculate_block_hash(block) ==
    [ sha256 |-> [ index |-> block.index, timestamp |-> block.timestamp,
                   previous_hash |-> block.previous_hash,
                   mirrored_chains |-> block.mirrored_chains,
                   mirrored_web |-> block.mirrored_web,
                   luxbin_transactions |-> block.luxbin_transactions ] ]

\* lines 186-189 and 443-448: the state that goes with a correlation
superposition_state(correlation) ==
    IF correlation > SuperpositionThreshold THEN "entangled" ELSE "collapsed"

\* mutant of verify_superposition: the hash is calculated again, over the
\* fresh correlation as well
verify_superposition_rehash(chain, block_index, correlation) ==
    IF block_index >= Len(chain) \/ block_index < 0 - Len(chain)
    THEN chain
    ELSE LET pos == IF block_index >= 0 THEN block_index + 1
                    ELSE Len(chain) + block_index + 1
         IN  [ chain EXCEPT ![pos].entanglement_correlation = correlation,
                            ![pos].superposition_state = superposition_state(correlation),
                            ![pos].hash = [ sha256 |-> [ hash |-> @, correlation |-> correlation ] ] ]

\* verify_superposition(block_index): the chain after the call.  An index
\* at or beyond the length returns False; a negative index counts from the
\* end, and one below -len raises IndexError before anything is written.
verify_superposition(chain, block_index, correlation) ==
    IF block_index >= Len(chain) \/ block_index < 0 - Len(chain)
    THEN chain
    ELSE LET pos == IF block_index >= 0 THEN block_index + 1
                    ELSE Len(chain) + block_index + 1
         IN  [ chain EXCEPT ![pos].entanglement_correlation = correlation,
                            ![pos].superposition_state = superposition_state(correlation) ]

\* create_superposition_block(...): the chain after the append
create_superposition_block(chain, backends, m, now, layers, correlation) ==
    LET index == Len(chain)
        previous_hash == IF chain # << >> THEN chain[Len(chain)].hash ELSE ZeroHash
        block == [ index |-> index,
                   timestamp |-> now,
                   previous_hash |-> previous_hash,
                   mirrored_chains |-> IF layers[1] THEN mirror_blockchains(now) ELSE << >>,
                   mirrored_web |-> IF layers[2] THEN mirror_web_pages(m) ELSE << >>,
                   luxbin_transactions |->
                       IF layers[3] THEN get_pending_luxbin_transactions(now) ELSE << >>,
                   quantum_mirrors |-> backends,
                   entanglement_correlation |-> 0,
                   superposition_state |-> "pending",
                   hash |-> "" ]
        hashed == [ block EXCEPT !.hash = calculate_block_hash(block) ]
    IN  Append(chain, [ hashed EXCEPT !.entanglement_correlation = correlation,
                                      !.superposition_state = superposition_state(correlation) ])

\* await create_superposition_block(...); when the entangler raises the
\* exception leaves the call before the append
CreateSuperpositionBlock ==
    /\ Len(superposition_chain) < MaxBlocks
    /\ \E layers \in LayerChoices, answer \in Correlations, raises \in BOOLEAN :
         IF raises
         THEN UNCHANGED << superposition_chain, last, clock >>
         ELSE /\ superposition_chain' =
                    create_superposition_block(superposition_chain, quantum_backends,
                                               mirrors, clock, layers, answer)
              /\ last' = [ op |-> "create_superposition_block", url |-> Home,
                           fault |-> "none", reg |-> "ok",
                           result |-> superposition_chain'[Len(superposition_chain')],
                           reverified |-> {}, raised |-> FALSE, time |-> clock ]
              /\ clock' = clock + 1
    /\ UNCHANGED << verifier, tasks, quantum_backends, lightworkers, cell_ownership, mirrors,
                    crawl_queue, visited_urls, dht, registry, fetches, lastScore, world, call >>

\* await verify_superposition(block_index)
VerifySuperposition ==
    /\ \E block_index \in (0 - MaxBlocks - 1)..MaxBlocks,
          answer \in Correlations, raises \in BOOLEAN :
         LET n == Len(superposition_chain)
             found == block_index < n /\ block_index >= 0 - n
             pos == IF block_index >= 0 THEN block_index + 1 ELSE n + block_index + 1
         IN  IF found /\ raises
             THEN UNCHANGED << superposition_chain, last >>
             ELSE /\ superposition_chain' =
                        verify_superposition(superposition_chain, block_index,
                                             IF found THEN answer ELSE 0)
                  /\ last' = [ op |-> "verify_superposition", url |-> Home,
                               fault |-> "none", reg |-> "ok",
                               result |-> (found /\ answer > SuperpositionThreshold),
                               reverified |-> IF found THEN {pos} ELSE {},
                               raised |-> (block_index < 0 - n), time |-> clock ]
    /\ UNCHANGED << verifier, tasks, quantum_backends, lightworkers, cell_ownership, mirrors,
                    crawl_queue, visited_urls, dht, registry, clock, fetches, lastScore,
                    world, call >>

NextChain == CreateSuperpositionBlock \/ VerifySuperposition

SpecChain == Init /\ [][NextChain]_vars

\* C29: after any sequence of create_superposition_block and
\* verify_superposition calls the block at position i has index i, block 0
\* has the previous_hash of 64 zeros, every later block has as previous_hash
\* the hash of the block before it, and no block of the chain is "pending":
\* it is "entangled" if its stored correlation is above 0.7 and "collapsed"
\* otherwise.
C29_ChainWellLinked ==
    \A i \in 1..Len(superposition_chain) :
        LET b == superposition_chain[i]
        IN  /\ b.index = i - 1
            /\ (i = 1) => b.previous_hash = ZeroHash
            /\ (i > 1) => b.previous_hash = superposition_chain[i - 1].hash
            /\ b.superposition_state # "pending"
            /\ b.superposition_state \in { "entangled", "collapsed" }
            /\ (b.superposition_state = "entangled")
                  <=> (b.entanglement_correlation > SuperpositionThreshold)

\* witness of C29: block 0 was appended entangled; after block 1 had been
\* appended it was verified again through a negative index and collapsed
C29_Witness ==
    /\ Len(superposition_chain) >= 2
    /\ last.op = "verify_superposition"
    /\ last.result = FALSE
    /\ last.reverified = {1}
    /\ superposition_chain[1].superposition_state = "collapsed"
    /\ superposition_chain[2].superposition_state = "entangled"
    /\ superposition_chain[2].previous_hash = superposition_chain[1].hash

----------------------------------------------------------------------------
(* LightworkerIntegration: create_lightworker, called one after the other  *)

MaxAgents == 3

AiModels == { "claude-3-5-sonnet-20241022", "gpt-4" }
Stakes == { 50, 100 }
Wallets == { None, [ address |-> "0xabc" ] }

\* cell_types of _mint_initial_cells
cell_types == << "DETECTOR", "DEFENDER", "MEMORY", "REGULATORY" >>

\* _mint_initial_cells(agent_id, wallet_address): one cell of each type; the
\* token id of each is read from the size of cell_ownership, which is not
\* written before create_lightworker has the whole list
mint_initial_cells(ownership, agent_id, wallet_address) ==
    [ i \in 1..Len(cell_types) |->
        LET nft_token_id == Size(ownership) + 1
        IN  [ cell_id      |-> << agent_id, cell_types[i], nft_token_id >>,
              cell_type    |-> cell_types[i],
              nft_token_id |-> nft_token_id,
              reputation   |-> 100,
              owner_agent  |-> agent_id,
              staked_lux   |-> 25,
              active       |-> TRUE ] ]

\* lines 173-174: cell_ownership[cell.nft_token_id] = agent_id for every cell
RECURSIVE register_cells(_, _, _)
register_cells(ownership, cells, agent_id) ==
    IF cells = << >>
    THEN ownership
    ELSE register_cells(Put(ownership, Head(cells).nft_token_id, agent_id),
                        Tail(cells), agent_id)

\* create_lightworker(ai_model, initial_stake, wallet_address); staked is
\* the answer of tokenomics.stake
create_lightworker(workers, ownership, now, ai_model, initial_stake, wallet_address, staked) ==
    LET agent_id == Len(workers) + 1
        wallet == IF wallet_address = None THEN [ address |-> agent_id ] ELSE wallet_address
        owned_cells == mint_initial_cells(ownership, agent_id, wallet)
        agent == [ agent_id |-> agent_id,
                   wallet_address |-> wallet,
                   ai_model |-> ai_model,
                   owned_cells |-> owned_cells,
                   staked_lux |-> initial_stake,
                   threats_detected |-> 0,
                   threats_resolved |-> 0,
                   reputation |-> 50,
                   active |-> TRUE,
                   created_at |-> now,
                   last_active |-> now ]
    IN  IF ~staked
        THEN [ lightworkers |-> workers, cell_ownership |-> ownership, result |-> None ]
        ELSE [ lightworkers |-> Append(workers, agent),
               cell_ownership |-> register_cells(ownership, owned_cells, agent_id),
               result |-> agent ]

\* await create_lightworker(...)
CreateLightworker ==
    /\ Len(lightworkers) < MaxAgents
    /\ \E ai_model \in AiModels, initial_stake \in Stakes, wallet_address \in Wallets,
          staked \in BOOLEAN :
         LET r == create_lightworker(lightworkers, cell_ownership, clock, ai_model,
                                     initial_stake, wallet_address, staked)
         IN  /\ lightworkers' = r.lightworkers
             /\ cell_ownership' = r.cell_ownership
             /\ clock' = IF staked THEN clock + 1 ELSE clock
    /\ UNCHANGED << verifier, tasks, quantum_backends, superposition_chain, mirrors,
                    crawl_queue, visited_urls, dht, registry, fetches, lastScore, last,
                    world, call >>

SpecLightworkers == Init /\ [][CreateLightworker]_vars

\* the minted cells: agent position and cell position
Minted == { p \in (1..Len(lightworkers)) \X (1..Len(cell_types)) : TRUE }

TokenOf(p) == lightworkers[p[1]].owned_cells[p[2]].nft_token_id

\* C30: after any sequence of create_lightworker calls every minted cell
\* has an nft_token_id that no other minted cell has, of the same agent or
\* of another; cell_ownership maps the token id of every minted cell to the
\* agent that owns it, and has one entry per minted cell.
C30_TokenIdsDistinct ==
    /\ \A p, q \in Minted : p # q => TokenOf(p) # TokenOf(q)
    /\ \A p \in Minted :
          /\ TokenOf(p) \in DOMAIN cell_ownership
          /\ cell_ownership[TokenOf(p)] = lightworkers[p[1]].agent_id
    /\ Size(cell_ownership) = Cardinality(Minted)

============================================================================
